---------------------------- MODULE Spec2Model ----------------------------
(***************************************************************************)
(* The email-thread reduction engine of nD_CaseTimeline.js:                *)
(* parseEmailContent, findSplitIndex, truncateHtml and linkify.            *)
(*                                                                         *)
(* An HTML string is a sequence of lexemes.  A lexeme is one abstract      *)
(* character: every offset, length and budget of the model counts          *)
(* lexemes, and no operation cuts a lexeme.  The lexemes are               *)
(*   markup      "<"  ">"  "/"  "?"  "?xml"                                 *)
(*   entities    "&lt;"  "&gt;"  "&amp;"  (the character references)       *)
(*   text        "a" "b" "w" (letters)  " " (a space)  "."  "&"  "@"       *)
(*   names       "span" "br" "head" "style" "script" "o:" "v:" "w:"        *)
(*               (letter runs that are used as tag names)                  *)
(*   "U"         a URL, such as http://u                                   *)
(*   HREF        the text  href="   that linkify writes before a URL       *)
(*   BLANK       the text  " target="_blank" style="color:#0176d3;"        *)
(*   ON WROTE ORIG FROM SENT DE ENVOYE DA INVIATO RULE                     *)
(*               the texts the reply-header patterns look for              *)
(* The browser's HTML parser, serializer and TreeWalker are modelled on    *)
(* this alphabet after the HTML standard (tokenizer states, the "in body"  *)
(* insertion mode, the active formatting elements).                        *)
(***************************************************************************)
EXTENDS Integers, Sequences, FiniteSets, TLC

----------------------------------------------------------------------------
(* Lexeme classes *)

HREF == "href"
BLANK == "blank"
ON == "On Mon"
WROTE == "wrote:"
ORIG == "---Original Message---"
FROM == "From:"
SENT == "Sent:"
DE == "De:"
ENVOYE == "Envoye:"
DA == "Da:"
INVIATO == "Inviato:"
RULE == "____________________"
PROLOG == "?xml"

\* Lexemes whose first character is an ASCII letter: after "<" they open a tag.
AlphaStart ==
    {"a", "b", "w", "span", "br", "head", "style", "script", "o:", "v:", "w:", "U",
     ON, WROTE, FROM, SENT, DE, ENVOYE, DA, INVIATO}

\* Lexemes that start with white space: they end a tag name.
SpaceStart == {" ", HREF}

\* Lexemes whose last character is a word character ([A-Za-z0-9_]).
WordEnd == {"a", "b", "w", "span", "br", "style", "script", "U", ON, RULE}

\* Lexemes made only of characters of [-A-Z0-9+&@#\/%?=~_|!:,.;] (line 463).
UrlChars == {"a", "b", "w", "span", "br", "style", "script", "U",
             "@", ".", "/", "&", "?", RULE}

\* Those that also end in a character of [-A-Z0-9+&@#\/%=~_|] (line 463).
UrlLastChars == UrlChars \ {".", "?"}

VoidNames == {<<"br">>}
RawTextNames == {<<"style">>, <<"script">>}
FormattingNames == {<<"a">>, <<"b">>}

----------------------------------------------------------------------------
(* Sequences *)

Last(s) == s[Len(s)]

Front(s) == SubSeq(s, 1, Len(s) - 1)

Min2(x, y) == IF x <= y THEN x ELSE y

\* String.prototype.substring(from, to) and substring(from), 0-based offsets.
Substring(s, from, to) == SubSeq(s, Min2(from, Len(s)) + 1, Min2(to, Len(s)))

SubstringFrom(s, from) == SubSeq(s, Min2(from, Len(s)) + 1, Len(s))

\* String.prototype.lastIndexOf(c, from): the last 0-based offset <= from
\* that holds c, or -1.
LastIndexOf(s, c, from) ==
    LET hits == {i \in 0..Min2(from, Len(s) - 1) : s[i + 1] = c}
    IN  IF hits = {} THEN -1 ELSE CHOOSE i \in hits : \A j \in hits : j <= i

\* A string without its leading white space.
TrimStart(s) ==
    LET inked == {i \in 1..Len(s) : s[i] # " "}
    IN  IF inked = {} THEN <<>>
        ELSE SubSeq(s, CHOOSE i \in inked : \A j \in inked : i <= j, Len(s))

----------------------------------------------------------------------------
(* The HTML tokenizer *)

\* Character tokens; consecutive ones are written as one token with the run.
RunTok(tx) == [k |-> "char", name |-> <<>>, attrs |-> <<>>, text |-> tx]

CharTok(c) == RunTok(<<c>>)

StartTok(n, at) == [k |-> "start", name |-> n, attrs |-> at, text |-> <<>>]

EndTok(n) == [k |-> "end", name |-> n, attrs |-> <<>>, text |-> <<>>]

RawTok(n, at, tx) == [k |-> "raw", name |-> n, attrs |-> at, text |-> tx]

\* A character reference in the data state stands for its character.
Decode(c) ==
    CASE c = "&lt;" -> "<"
      [] c = "&gt;" -> ">"
      [] c = "&amp;" -> "&"
      [] OTHER -> c

\* The offset of the ">" that ends the tag scanned from k on, 0 when the input
\* ends inside the tag.  A ">" inside a double-quoted attribute value does not
\* end the tag: HREF opens (or closes) a quote, BLANK closes one.
RECURSIVE TagEnd(_, _, _)
TagEnd(s, k, inQuote) ==
    IF k > Len(s) THEN 0
    ELSE IF s[k] = ">" /\ ~inQuote THEN k
    ELSE IF s[k] = HREF THEN TagEnd(s, k + 1, ~inQuote)
    ELSE IF s[k] = BLANK THEN TagEnd(s, k + 1, FALSE)
    ELSE TagEnd(s, k + 1, inQuote)

\* The tag name state: the name runs to the first white space, "/" or the
\* end of the tag at e.
RECURSIVE NameEnd(_, _, _)
NameEnd(s, k, e) ==
    IF k >= e THEN e
    ELSE IF s[k] \in SpaceStart \/ s[k] = "/" THEN k
    ELSE NameEnd(s, k + 1, e)

\* RAWTEXT and script data: the offset of the "<" of the first end tag with
\* this name from k on, 0 when there is none.
RECURSIVE RawEnd(_, _, _)
RawEnd(s, k, n) ==
    IF k + 2 + Len(n) > Len(s) THEN 0
    ELSE IF /\ s[k] = "<"
            /\ s[k + 1] = "/"
            /\ SubSeq(s, k + 2, k + 1 + Len(n)) = n
            /\ s[k + 2 + Len(n)] \in SpaceStart \cup {"/", ">"}
         THEN k
    ELSE RawEnd(s, k + 1, n)

\* The first ">" from k on, 0 when there is none (the bogus comment state).
RECURSIVE NextGt(_, _)
NextGt(s, k) ==
    IF k > Len(s) THEN 0
    ELSE IF s[k] = ">" THEN k
    ELSE NextGt(s, k + 1)

\* The index of the first "<" from i on, one past the end when there is none.
NextLt(s, i) ==
    LET stops == {j \in i..Len(s) : s[j] = "<"}
    IN  IF stops = {} THEN Len(s) + 1 ELSE CHOOSE j \in stops : \A k \in stops : j <= k

RECURSIVE Tokens(_, _)
Tokens(s, i) ==
    IF i > Len(s) THEN <<>>
    ELSE IF s[i] # "<" THEN
        \* data state: the characters up to the next "<" are emitted together
        LET j == NextLt(s, i)
        IN  <<RunTok([m \in 1..(j - i) |-> Decode(s[i + m - 1])])>> \o Tokens(s, j)
    ELSE IF i = Len(s) THEN <<CharTok("<")>>
    ELSE IF s[i + 1] \in AlphaStart THEN
        \* tag open state, then tag name state
        LET e == TagEnd(s, i + 2, FALSE)
        IN  IF e = 0 THEN <<>>                      \* eof-in-tag: nothing is emitted
            ELSE LET ne == NameEnd(s, i + 1, e)
                     n == SubSeq(s, i + 1, ne - 1)
                     at == SubSeq(s, ne, e - 1)
                 IN  IF n \in RawTextNames
                     THEN LET r == RawEnd(s, e + 1, n)
                          IN  IF r = 0
                              THEN <<RawTok(n, at, SubSeq(s, e + 1, Len(s)))>>
                              ELSE <<RawTok(n, at, SubSeq(s, e + 1, r - 1))>>
                                   \o LET c == TagEnd(s, r + 2, FALSE)
                                      IN  IF c = 0 THEN <<>> ELSE Tokens(s, c + 1)
                     ELSE <<StartTok(n, at)>> \o Tokens(s, e + 1)
    ELSE IF s[i + 1] = "/" THEN
        \* end tag open state
        IF i + 1 = Len(s) THEN <<CharTok("<"), CharTok("/")>>
        ELSE IF s[i + 2] \in AlphaStart THEN
            LET e == TagEnd(s, i + 3, FALSE)
            IN  IF e = 0 THEN <<>>
                ELSE <<EndTok(SubSeq(s, i + 2, NameEnd(s, i + 2, e) - 1))>>
                     \o Tokens(s, e + 1)
        ELSE IF s[i + 2] = ">" THEN Tokens(s, i + 3)   \* missing end tag name
        ELSE LET g == NextGt(s, i + 2)                 \* bogus comment
             IN  IF g = 0 THEN <<>> ELSE Tokens(s, g + 1)
    ELSE IF s[i + 1] \in {"?", PROLOG} THEN
        LET g == NextGt(s, i + 1)                      \* bogus comment
        IN  IF g = 0 THEN <<>> ELSE Tokens(s, g + 1)
    ELSE <<CharTok("<")>> \o Tokens(s, i + 1)

Tokenize(s) == Tokens(s, 1)

----------------------------------------------------------------------------
(* HTML tree construction ("in body").  The parser's document is a table  *)
(* of nodes in creation order, each with its parent (0 is the root: the    *)
(* body, or the element whose innerHTML is set); the parser only appends,  *)
(* so the children of a node are its entries in table order.               *)

TextNode(tx) == [kind |-> "text", name |-> <<>>, attrs |-> <<>>, text |-> tx, kids |-> <<>>]

Element(n, at, ks) == [kind |-> "el", name |-> n, attrs |-> at, text |-> <<>>, kids |-> ks]

Entry(kind, n, at, tx, p) == [kind |-> kind, name |-> n, attrs |-> at, text |-> tx, parent |-> p]

InSeq(x, s) == \E i \in 1..Len(s) : s[i] = x

CurrentNode(st) == IF st.stack = <<>> THEN 0 ELSE Last(st.stack)

LastChild(nodes, p) ==
    LET cs == {i \in 1..Len(nodes) : nodes[i].parent = p}
    IN  IF cs = {} THEN 0 ELSE CHOOSE i \in cs : \A j \in cs : j <= i

\* Insert an element for the token under the current node and push it.
InsertElement(st, n, at) ==
    LET id == Len(st.nodes) + 1
    IN  [st EXCEPT !.nodes = Append(@, Entry("el", n, at, <<>>, CurrentNode(st))),
                   !.stack = Append(@, id)]

\* Reconstruct the active formatting elements: the entries at the end of the
\* list that are no longer open are opened again, as new elements.
RECURSIVE Reopen(_, _)
Reopen(st, i) ==
    IF i > Len(st.afe) THEN st
    ELSE LET old == st.nodes[st.afe[i]]
             st1 == InsertElement(st, old.name, old.attrs)
         IN  Reopen([st1 EXCEPT !.afe[i] = Len(st1.nodes)], i + 1)

Reconstruct(st) ==
    IF st.afe = <<>> \/ InSeq(Last(st.afe), st.stack) THEN st
    ELSE LET open == {i \in 1..Len(st.afe) : InSeq(st.afe[i], st.stack)}
             from == IF open = {} THEN 1
                     ELSE 1 + CHOOSE i \in open : \A j \in open : j <= i
         IN  Reopen(st, from)

\* Insert characters: they join the current node's last child when that is a
\* text node, and are a new text node otherwise.
InsertChar(st, tx) ==
    LET cur == CurrentNode(st)
        lc == LastChild(st.nodes, cur)
    IN  IF lc # 0 /\ st.nodes[lc].kind = "text"
        THEN [st EXCEPT !.nodes[lc].text = @ \o tx]
        ELSE [st EXCEPT !.nodes = Append(@, Entry("text", <<>>, <<>>, tx, cur))]

RemoveAt(s, i) == SubSeq(s, 1, i - 1) \o SubSeq(s, i + 1, Len(s))

\* "Any other end tag": the nearest open element with this name is closed
\* with everything opened inside it; with no such element the tag is ignored.
AnyOtherEndTag(st, n) ==
    LET hits == {i \in 1..Len(st.stack) : st.nodes[st.stack[i]].name = n}
    IN  IF hits = {} THEN st
        ELSE LET i == CHOOSE i \in hits : \A j \in hits : j <= i
             IN  [st EXCEPT !.stack = SubSeq(@, 1, i - 1)]

\* The adoption agency algorithm for an end tag of a formatting element.  The
\* alphabet has no element of the "special" category, so there is never a
\* furthest block: the formatting element is closed with everything opened
\* inside it and leaves the list of active formatting elements.
Adoption(st, n) ==
    LET hits == {i \in 1..Len(st.afe) : st.nodes[st.afe[i]].name = n}
    IN  IF hits = {} THEN AnyOtherEndTag(st, n)
        ELSE LET i == CHOOSE i \in hits : \A j \in hits : j <= i
                 el == st.afe[i]
                 at == {j \in 1..Len(st.stack) : st.stack[j] = el}
             IN  IF at = {} THEN [st EXCEPT !.afe = RemoveAt(@, i)]
                 ELSE [st EXCEPT !.afe = RemoveAt(@, i),
                                 !.stack = SubSeq(@, 1, (CHOOSE j \in at : TRUE) - 1)]

StartTag(st, n, at) ==
    IF n \in VoidNames THEN
        LET st1 == InsertElement(Reconstruct(st), n, at)
        IN  [st1 EXCEPT !.stack = Front(@)]
    ELSE IF n \in FormattingNames THEN
        \* an "a" start tag first closes an anchor that is still active
        LET st0 == IF n = <<"a">> THEN
                       IF \E i \in 1..Len(st.afe) : st.nodes[st.afe[i]].name = n
                       THEN Adoption(st, n) ELSE st
                   ELSE st
            st1 == InsertElement(Reconstruct(st0), n, at)
        IN  [st1 EXCEPT !.afe = Append(@, Len(st1.nodes))]
    ELSE InsertElement(Reconstruct(st), n, at)

\* A style or script element with its raw text (the "text" insertion mode).
RawElement(st, n, at, tx) ==
    LET st1 == InsertElement(st, n, at)
        st2 == IF tx = <<>> THEN st1
               ELSE [st1 EXCEPT !.nodes =
                         Append(@, Entry("text", <<>>, <<>>, tx, Len(st1.nodes)))]
    IN  [st2 EXCEPT !.stack = Front(@)]

EndTag(st, n) ==
    IF n \in VoidNames THEN StartTag(st, n, <<>>)       \* </br> acts as <br>
    ELSE IF n \in FormattingNames THEN Adoption(st, n)
    ELSE AnyOtherEndTag(st, n)

TreeStep(st, t) ==
    CASE t.k = "char" -> InsertChar(Reconstruct(st), t.text)
      [] t.k = "start" -> StartTag(st, t.name, t.attrs)
      [] t.k = "end" -> EndTag(st, t.name)
      [] t.k = "raw" -> RawElement(st, t.name, t.attrs, t.text)

RECURSIVE TreeRun(_, _, _)
TreeRun(st, ts, i) ==
    IF i > Len(ts) THEN st ELSE TreeRun(TreeStep(st, ts[i]), ts, i + 1)

\* The children of entry p as a sequence of nodes.
RECURSIVE Kids(_, _, _)
Kids(nodes, p, i) ==
    IF i > Len(nodes) THEN <<>>
    ELSE IF nodes[i].parent # p THEN Kids(nodes, p, i + 1)
    ELSE <<IF nodes[i].kind = "text" THEN TextNode(nodes[i].text)
           ELSE Element(nodes[i].name, nodes[i].attrs, Kids(nodes, i, i + 1))>>
         \o Kids(nodes, p, i + 1)

BuildTree(ts) ==
    Kids(TreeRun([nodes |-> <<>>, stack |-> <<>>, afe |-> <<>>], ts, 1).nodes, 0, 1)

\* element.innerHTML = s: the children the fragment parser gives the element.
ParseFragment(s) == BuildTree(Tokenize(s))

\* Before the body exists ("initial" to "after head") white space is
\* dropped, an end tag is ignored, a head tag opens the head and a style or
\* script element goes into it.
RECURSIVE BodyTokens(_)
BodyTokens(ts) ==
    IF ts = <<>> THEN <<>>
    ELSE IF Head(ts).k = "raw" THEN BodyTokens(Tail(ts))
    ELSE IF Head(ts).k = "end" THEN BodyTokens(Tail(ts))
    ELSE IF Head(ts).k = "start" /\ Head(ts).name = <<"head">> THEN BodyTokens(Tail(ts))
    ELSE IF Head(ts).k = "char" THEN
        LET tx == TrimStart(Head(ts).text)
        IN  IF tx = <<>> THEN BodyTokens(Tail(ts)) ELSE <<RunTok(tx)>> \o Tail(ts)
    ELSE ts

\* new DOMParser().parseFromString(s, 'text/html').body: its children.
ParseDocument(s) == BuildTree(BodyTokens(Tokenize(s)))

----------------------------------------------------------------------------
(* Reading a tree back *)

\* textContent, and innerText of an element that is not rendered (every
\* element the component reads it from is detached from the page).
RECURSIVE TextContent(_)
TextContent(ks) ==
    IF ks = <<>> THEN <<>>
    ELSE (IF Head(ks).kind = "text" THEN Head(ks).text ELSE TextContent(Head(ks).kids))
         \o TextContent(Tail(ks))

Escape(c) ==
    CASE c = "<" -> "&lt;"
      [] c = ">" -> "&gt;"
      [] c = "&" -> "&amp;"
      [] OTHER -> c

\* The innerHTML getter: the serialization of the children ks of an element
\* named parent.  Text is escaped, except in style and script.
RECURSIVE Serialize(_, _)
Serialize(ks, parent) ==
    IF ks = <<>> THEN <<>>
    ELSE LET n == Head(ks)
         IN  (IF n.kind = "text"
              THEN IF parent \in RawTextNames THEN n.text
                   ELSE [i \in 1..Len(n.text) |-> Escape(n.text[i])]
              ELSE <<"<">> \o n.name \o n.attrs \o <<">">>
                   \o (IF n.name \in VoidNames THEN <<>>
                       ELSE Serialize(n.kids, n.name) \o <<"<", "/">> \o n.name \o <<">">>))
             \o Serialize(Tail(ks), parent)

InnerHTML(ks) == Serialize(ks, <<"div">>)

----------------------------------------------------------------------------
(* parseEmailContent: the clean-up of the body (lines 295-303) *)

\* The offset of the first  </name>  from k on, 0 when there is none.
RECURSIVE CloseAt(_, _, _)
CloseAt(s, k, name) ==
    IF k + 3 > Len(s) THEN 0
    ELSE IF SubSeq(s, k, k + 3) = <<"<", "/", name, ">">> THEN k
    ELSE CloseAt(s, k + 1, name)

\* s.replace(/<name[^>]*>[\s\S]*?<\/name>/gi, '')
RECURSIVE RemoveBlocks(_, _, _)
RemoveBlocks(s, i, name) ==
    IF i > Len(s) THEN <<>>
    ELSE LET g == IF i < Len(s) /\ s[i] = "<" /\ s[i + 1] = name
                  THEN NextGt(s, i + 2) ELSE 0
             c == IF g = 0 THEN 0 ELSE CloseAt(s, g + 1, name)
         IN  IF c = 0 THEN <<s[i]>> \o RemoveBlocks(s, i + 1, name)
             ELSE RemoveBlocks(s, c + 4, name)

\* The offset of the first  ?>  from k on, 0 when there is none.
RECURSIVE PrologEnd(_, _)
PrologEnd(s, k) ==
    IF k + 1 > Len(s) THEN 0
    ELSE IF s[k] = "?" /\ s[k + 1] = ">" THEN k
    ELSE PrologEnd(s, k + 1)

\* s.replace(/<\?xml[\s\S]*?\?>/gi, '')
RECURSIVE RemoveProlog(_, _)
RemoveProlog(s, i) ==
    IF i > Len(s) THEN <<>>
    ELSE LET c == IF i < Len(s) /\ s[i] = "<" /\ s[i + 1] = PROLOG
                  THEN PrologEnd(s, i + 2) ELSE 0
         IN  IF c = 0 THEN <<s[i]>> \o RemoveProlog(s, i + 1)
             ELSE RemoveProlog(s, c + 2)

\* s.replace(/<\/?ns[^>]*>/gi, '') for the namespace prefix ns.
RECURSIVE RemoveNsTags(_, _, _)
RemoveNsTags(s, i, ns) ==
    IF i > Len(s) THEN <<>>
    ELSE LET n == IF i < Len(s) /\ s[i] = "<" /\ s[i + 1] = "/" THEN i + 2 ELSE i + 1
             g == IF s[i] = "<" /\ n <= Len(s) /\ s[n] = ns
                  THEN NextGt(s, n + 1) ELSE 0
         IN  IF g = 0 THEN <<s[i]>> \o RemoveNsTags(s, i + 1, ns)
             ELSE RemoveNsTags(s, g + 1, ns)

Cleaned(fullBody) ==
    LET s1 == RemoveBlocks(fullBody, 1, "head")
        s2 == RemoveBlocks(s1, 1, "style")
        s3 == RemoveBlocks(s2, 1, "script")
        s4 == RemoveProlog(s3, 1)
        s5 == RemoveNsTags(s4, 1, "o:")
        s6 == RemoveNsTags(s5, 1, "v:")
    IN  RemoveNsTags(s6, 1, "w:")

----------------------------------------------------------------------------
(* findSplitIndex (lines 332-362) *)

OnWroteGap == 200
FromSentGap == 300
HeaderGap == 100
SnapWindow == 100

\* The 0-based offset of the least element of a set of 1-based offsets, -1
\* for the empty set: RegExp.prototype.exec's match.index, or no match.
MatchIndex(starts) ==
    IF starts = {} THEN -1
    ELSE (CHOOSE i \in starts : \A j \in starts : i <= j) - 1

At(s, i, w) == i + Len(w) - 1 <= Len(s) /\ SubSeq(s, i, i + Len(w) - 1) = w

BoldFrom == <<"<", "b", ">", FROM, "<", "/", "b", ">">>
BoldSent == <<"<", "b", ">", SENT, "<", "/", "b", ">">>

\* /On\s+[A-Za-z]{3}[\s\S]{0,200}?wrote:/i
OnWrote(s) ==
    MatchIndex({i \in 1..Len(s) :
        /\ s[i] = ON
        /\ \E j \in (i + 1)..Len(s) : s[j] = WROTE /\ j - (i + 1) <= OnWroteGap})

\* /-{3,}\s*(Original|Forwarded)\s+Message\s*-{3,}/i
OriginalMessage(s) == MatchIndex({i \in 1..Len(s) : s[i] = ORIG})

\* /(?:From:|<b>From:<\/b>)[\s\S]{1,300}?(?:Sent:|<b>Sent:<\/b>)/i
FromSent(s) ==
    MatchIndex({i \in 1..Len(s) :
        \E w \in {<<FROM>>, BoldFrom} :
            /\ At(s, i, w)
            /\ \E j \in (i + Len(w) + 1)..Len(s) :
                   /\ j - (i + Len(w)) <= FromSentGap
                   /\ At(s, j, <<SENT>>) \/ At(s, j, BoldSent)})

\* /From:.{1,100}?(&lt;|<).+?@.+?(&gt;|>)/i
FromAddress(s) ==
    MatchIndex({i \in 1..Len(s) :
        /\ s[i] = FROM
        /\ \E p \in (i + 2)..Len(s) :
               /\ p - (i + 1) <= HeaderGap
               /\ s[p] \in {"&lt;", "<"}
               /\ \E q \in (p + 2)..Len(s) :
                      /\ s[q] = "@"
                      /\ \E r \in (q + 2)..Len(s) : s[r] \in {"&gt;", ">"}})

\* /De\s*:.{1,100}?Envoy.{1,100}?:/i
DeEnvoye(s) ==
    MatchIndex({i \in 1..Len(s) :
        /\ s[i] = DE
        /\ \E j \in (i + 2)..Len(s) : s[j] = ENVOYE /\ j - (i + 1) <= HeaderGap})

\* /Da\s*:.{1,100}?Inviato\s*:/i
DaInviato(s) ==
    MatchIndex({i \in 1..Len(s) :
        /\ s[i] = DA
        /\ \E j \in (i + 2)..Len(s) : s[j] = INVIATO /\ j - (i + 1) <= HeaderGap})

\* /_{20,}/
Underscores(s) == MatchIndex({i \in 1..Len(s) : s[i] = RULE})

\* patterns[k], applied: pattern.exec(html), as match.index or -1.
PatternExec(k, html) ==
    CASE k = 1 -> OnWrote(html)
      [] k = 2 -> OriginalMessage(html)
      [] k = 3 -> FromSent(html)
      [] k = 4 -> FromAddress(html)
      [] k = 5 -> DeEnvoye(html)
      [] k = 6 -> DaInviato(html)
      [] k = 7 -> Underscores(html)

NumPatterns == 7

\* A buggy variant: the first pattern of the list that matches wins.
RECURSIVE FirstInListWins(_, _, _)
FirstInListWins(html, order, bestIndex) ==
    IF order = <<>> THEN bestIndex
    ELSE LET index == PatternExec(Head(order), html)
         IN  IF index # -1 THEN index
             ELSE FirstInListWins(html, Tail(order), bestIndex)

\* The loop of lines 344-352 over the patterns in the given order.
RECURSIVE BestIndexLoop(_, _, _)
BestIndexLoop(html, order, bestIndex) ==
    IF order = <<>> THEN bestIndex
    ELSE LET index == PatternExec(Head(order), html)
         IN  BestIndexLoop(html, Tail(order),
                 IF index # -1 /\ (bestIndex = -1 \/ index < bestIndex)
                 THEN index ELSE bestIndex)

PatternOrder == [k \in 1..NumPatterns |-> k]

BestIndex(html) == BestIndexLoop(html, PatternOrder, -1)

\* Lines 354-361: the candidate, snapped back to the nearest ">" before it.
SnapIndex(html, bestIndex) ==
    IF bestIndex # -1
    THEN LET lastClose == LastIndexOf(html, ">", bestIndex)
         IN  IF lastClose # -1 /\ bestIndex - lastClose < SnapWindow
             THEN lastClose + 1
             ELSE bestIndex
    ELSE -1

FindSplitIndex(html) == SnapIndex(html, BestIndex(html))

----------------------------------------------------------------------------
(* linkify (lines 425-481) *)

\* acceptNode (lines 437-447): the walker takes a text node unless its parent
\* element is an anchor, a script or a style.
AcceptNode(parentName) ==
    IF parentName = <<"a">> THEN FALSE
    ELSE IF parentName = <<"script">> \/ parentName = <<"style">> THEN FALSE
    ELSE TRUE

\* \b before the scheme: the URL starts the text or follows a character that
\* is no word character.
UrlStartsAt(text, i) ==
    text[i] = "U" /\ (i = 1 \/ text[i - 1] \notin WordEnd)

\* The regular expression of lines 457 and 463 matches somewhere in the text.
HasUrl(text) == \E i \in 1..Len(text) : UrlStartsAt(text, i)

\* The offset of the last lexeme of the match that starts at i: the longest
\* run of URL characters, cut back to its last character that may end a URL.
UrlEnd(text, i) ==
    LET run == {j \in i..Len(text) : \A k \in (i + 1)..j : text[k] \in UrlChars}
        ends == {j \in run : j = i \/ text[j] \in UrlLastChars}
    IN  CHOOSE j \in ends : \A k \in ends : k <= j

AnchorOpen(url) == <<"<", "a", HREF>> \o url \o <<BLANK, ">">>

AnchorClose == <<"<", "/", "a", ">">>

\* nodeValue.replace(urlPattern, '<a href="$1" target="_blank" ...>$1</a>')
RECURSIVE ReplaceUrls(_, _)
ReplaceUrls(text, i) ==
    IF i > Len(text) THEN <<>>
    ELSE IF UrlStartsAt(text, i)
    THEN LET e == UrlEnd(text, i)
             url == SubSeq(text, i, e)
         IN  AnchorOpen(url) \o url \o AnchorClose \o ReplaceUrls(text, e + 1)
    ELSE <<text[i]>> \o ReplaceUrls(text, i + 1)

\* Lines 465-478: the span that takes the place of a collected text node.
\* The node's value, with the anchors written into it, is parsed as HTML.
NewSpan(text) == Element(<<"span">>, <<>>, ParseFragment(ReplaceUrls(text, 1)))

\* Lines 456-478 over the children ks of an element named parentName.
RECURSIVE LinkifyNodes(_, _)
LinkifyNodes(ks, parentName) ==
    IF ks = <<>> THEN <<>>
    ELSE LET n == Head(ks)
         IN  <<IF n.kind = "text"
               THEN IF AcceptNode(parentName) /\ HasUrl(n.text)
                    THEN NewSpan(n.text) ELSE n
               ELSE Element(n.name, n.attrs, LinkifyNodes(n.kids, n.name))>>
             \o LinkifyNodes(Tail(ks), parentName)

\* doc.body's children once the collected nodes are replaced (line 478).
LinkifyDoc(html) == LinkifyNodes(ParseDocument(html), <<"body">>)

Linkify(html) ==
    IF html = <<>> THEN <<>>
    ELSE InnerHTML(LinkifyDoc(html))

----------------------------------------------------------------------------
(* truncateHtml (lines 364-423) *)

Ellipsis == <<".", ".", ".">>

HistorySeparator == <<"<", "br", "/", ">", "<", "hr", "/", ">">>

RECURSIVE ProcessNode(_, _, _)
RECURSIVE ProcessChildren(_, _, _)

\* A buggy variant of processNode: the text node that overflows the budget is
\* cut, but the budget is not marked as used up.
ProcessNodeBudgetNotMarked(sourceNode, maxChars, st) ==
    IF sourceNode.kind = "text"
    THEN LET text == sourceNode.text
         IN  IF st.limitReached
             THEN [st EXCEPT !.head = <<>>, !.tail = <<TextNode(text)>>]
             ELSE IF st.charCount + Len(text) <= maxChars
             THEN [st EXCEPT !.head = <<TextNode(text)>>, !.tail = <<>>,
                             !.charCount = @ + Len(text)]
             ELSE LET remainingSpace == maxChars - st.charCount
                  IN  [st EXCEPT
                          !.head = <<TextNode(Substring(text, 0, remainingSpace))>>,
                          !.tail = <<TextNode(SubstringFrom(text, remainingSpace))>>]
    ELSE LET r == ProcessChildren(sourceNode.kids, maxChars,
                                  [st EXCEPT !.head = <<>>, !.tail = <<>>])
         IN  [r EXCEPT
                 !.head = IF r.head # <<>>
                          THEN <<Element(sourceNode.name, sourceNode.attrs, r.head)>>
                          ELSE <<>>,
                 !.tail = IF r.tail # <<>>
                          THEN <<Element(sourceNode.name, sourceNode.attrs, r.tail)>>
                          ELSE <<>>]

\* A buggy variant of processNode: the tail clone is attached whether or not
\* it has children.
ProcessNodeTailAlways(sourceNode, maxChars, st) ==
    IF sourceNode.kind = "text"
    THEN LET text == sourceNode.text
         IN  IF st.limitReached
             THEN [st EXCEPT !.head = <<>>, !.tail = <<TextNode(text)>>]
             ELSE IF st.charCount + Len(text) <= maxChars
             THEN [st EXCEPT !.head = <<TextNode(text)>>, !.tail = <<>>,
                             !.charCount = @ + Len(text)]
             ELSE LET remainingSpace == maxChars - st.charCount
                  IN  [head |-> <<TextNode(Substring(text, 0, remainingSpace))>>,
                       tail |-> <<TextNode(SubstringFrom(text, remainingSpace))>>,
                       charCount |-> maxChars,
                       limitReached |-> TRUE]
    ELSE LET r == ProcessChildren(sourceNode.kids, maxChars,
                                  [st EXCEPT !.head = <<>>, !.tail = <<>>])
         IN  [r EXCEPT
                 !.head = IF r.head # <<>>
                          THEN <<Element(sourceNode.name, sourceNode.attrs, r.head)>>
                          ELSE <<>>,
                 !.tail = <<Element(sourceNode.name, sourceNode.attrs, r.tail)>>]

\* A buggy variant of processNode: the head clone is attached whenever the
\* element is met before the budget has run out, children or not.
ProcessNodeHeadBeforeLimit(sourceNode, maxChars, st) ==
    IF sourceNode.kind = "text"
    THEN LET text == sourceNode.text
         IN  IF st.limitReached
             THEN [st EXCEPT !.head = <<>>, !.tail = <<TextNode(text)>>]
             ELSE IF st.charCount + Len(text) <= maxChars
             THEN [st EXCEPT !.head = <<TextNode(text)>>, !.tail = <<>>,
                             !.charCount = @ + Len(text)]
             ELSE LET remainingSpace == maxChars - st.charCount
                  IN  [head |-> <<TextNode(Substring(text, 0, remainingSpace))>>,
                       tail |-> <<TextNode(SubstringFrom(text, remainingSpace))>>,
                       charCount |-> maxChars,
                       limitReached |-> TRUE]
    ELSE LET r == ProcessChildren(sourceNode.kids, maxChars,
                                  [st EXCEPT !.head = <<>>, !.tail = <<>>])
         IN  [r EXCEPT
                 !.head = IF r.head # <<>> \/ ~st.limitReached
                          THEN <<Element(sourceNode.name, sourceNode.attrs, r.head)>>
                          ELSE <<>>,
                 !.tail = IF r.tail # <<>>
                          THEN <<Element(sourceNode.name, sourceNode.attrs, r.tail)>>
                          ELSE <<>>]

\* processNode (lines 378-408).  st holds charCount and limitReached; the
\* result holds them after the node, with what the node appended to
\* headParent and to tailParent.
ProcessNode(sourceNode, maxChars, st) ==
    IF sourceNode.kind = "text"
    THEN LET text == sourceNode.text
         IN  IF st.limitReached
             THEN [st EXCEPT !.head = <<>>, !.tail = <<TextNode(text)>>]
             ELSE IF st.charCount + Len(text) <= maxChars
             THEN [st EXCEPT !.head = <<TextNode(text)>>, !.tail = <<>>,
                             !.charCount = @ + Len(text)]
             ELSE LET remainingSpace == maxChars - st.charCount
                  IN  [head |-> <<TextNode(Substring(text, 0, remainingSpace))>>,
                       tail |-> <<TextNode(SubstringFrom(text, remainingSpace))>>,
                       charCount |-> maxChars,
                       limitReached |-> TRUE]
    ELSE LET r == ProcessChildren(sourceNode.kids, maxChars,
                                  [st EXCEPT !.head = <<>>, !.tail = <<>>])
             hasHead == r.head # <<>>
             hasTail == r.tail # <<>>
         IN  [r EXCEPT
                 !.head = IF hasHead
                          THEN <<Element(sourceNode.name, sourceNode.attrs, r.head)>>
                          ELSE <<>>,
                 !.tail = IF hasTail
                          THEN <<Element(sourceNode.name, sourceNode.attrs, r.tail)>>
                          ELSE <<>>]

\* The loops of lines 400-404 and 410-412: st.head and st.tail are the
\* children appended so far to the two parents.
ProcessChildren(ks, maxChars, st) ==
    IF ks = <<>> THEN st
    ELSE LET r == ProcessNode(Head(ks), maxChars, st)
         IN  ProcessChildren(Tail(ks), maxChars,
                 [r EXCEPT !.head = st.head \o r.head, !.tail = st.tail \o r.tail])

SplitTree(body, maxChars) ==
    ProcessChildren(body, maxChars,
        [head |-> <<>>, tail |-> <<>>, charCount |-> 0, limitReached |-> FALSE])

\* Lines 369-371 and 414-422: what truncateHtml returns for the parsed body,
\* r being the head and tail trees and headHtml, overflowHtml their markup;
\* path is "passthrough" for the return of line 370, "structural" for the one
\* of line 418.
TruncateResult(html, body, r, headHtml, overflowHtml, existingHistory, fits) ==
    [path |-> IF fits THEN "passthrough" ELSE "structural",
     body |-> body,
     headRoot |-> r.head, tailRoot |-> r.tail,
     headHtml |-> headHtml, overflowHtml |-> overflowHtml,
     newContent |-> Linkify(IF fits THEN html ELSE headHtml \o Ellipsis),
     historyContent |->
         IF fits THEN existingHistory
         ELSE overflowHtml \o (IF existingHistory # <<>>
                               THEN HistorySeparator \o existingHistory
                               ELSE <<>>),
     hasHistory |-> IF fits THEN existingHistory # <<>> ELSE TRUE]

\* Lines 414-415.
TruncateSplit(html, body, r, existingHistory, fits) ==
    TruncateResult(html, body, r, InnerHTML(r.head), InnerHTML(r.tail),
                   existingHistory, fits)

\* A buggy variant of lines 373-415: the HTML string itself is cut at the
\* budget instead of the tree.
TruncateBodyStringCut(html, body, existingHistory, maxChars) ==
    IF Len(TextContent(body)) <= maxChars
    THEN TruncateSplit(html, body, [head |-> <<>>, tail |-> <<>>], existingHistory, TRUE)
    ELSE TruncateResult(html, body, SplitTree(body, maxChars),
                        Substring(html, 0, maxChars), SubstringFrom(html, maxChars),
                        existingHistory, FALSE)

\* Lines 369-415, body being doc.body's children.
TruncateBody(html, body, existingHistory, maxChars) ==
    IF Len(TextContent(body)) <= maxChars
    THEN TruncateSplit(html, body, [head |-> <<>>, tail |-> <<>>], existingHistory, TRUE)
    ELSE TruncateSplit(html, body, SplitTree(body, maxChars), existingHistory, FALSE)

\* truncateHtml with everything it computes on the way.
TruncateTrace(html, existingHistory, maxChars) ==
    TruncateBody(html, ParseDocument(html), existingHistory, maxChars)

Result(t) ==
    [newContent |-> t.newContent, historyContent |-> t.historyContent,
     hasHistory |-> t.hasHistory]

TruncateHtml(html, existingHistory, maxChars) ==
    Result(TruncateTrace(html, existingHistory, maxChars))

----------------------------------------------------------------------------
(* parseEmailContent (lines 289-330) *)

UnlimitedSlack == 100

\* A buggy variant of line 293: 0 is taken as a budget like any other.
MaxCharsZeroIsBudget(fullBody, visibleCharLimit) == visibleCharLimit

\* Line 293.
MaxChars(fullBody, visibleCharLimit) ==
    IF visibleCharLimit = 0 THEN Len(fullBody) + UnlimitedSlack ELSE visibleCharLimit

\* Lines 308-316.
UseNaturalSplit(cleaned, htmlSplitIndex, maxChars) ==
    /\ htmlSplitIndex > 0
    /\ Len(TextContent(ParseFragment(Substring(cleaned, 0, htmlSplitIndex)))) <= maxChars

\* The values null and undefined of a body, written as strings of one lexeme
\* that no string of the alphabet holds.
NULL == <<"null">>
UNDEFINED == <<"undefined">>

\* Line 290: !fullBody.
Falsy(body) == body \in {NULL, UNDEFINED, <<>>}

\* The trace before anything is computed: the return of line 290.
Blank ==
    [path |-> "empty", cleaned |-> <<>>, maxChars |-> 0,
     bestIndex |-> -1, htmlSplitIndex |-> -1,
     body |-> <<>>, headRoot |-> <<>>, tailRoot |-> <<>>,
     headHtml |-> <<>>, overflowHtml |-> <<>>,
     newContent |-> <<>>, historyContent |-> <<>>, hasHistory |-> FALSE]

\* Lines 318-329: the natural split, or truncateHtml's result t.
SplitOrTruncate(found, cleaned, htmlSplitIndex, natural, t) ==
    IF natural
    THEN [path |-> "natural",
          newContent |-> t.newContent,
          historyContent |-> SubstringFrom(cleaned, htmlSplitIndex),
          hasHistory |-> TRUE] @@ found @@ Blank
    ELSE t @@ found

\* Lines 305-329.  The natural split linkifies the part before the split
\* (line 323); otherwise truncateHtml is run on the whole (line 328).
ParseCleaned(found, cleaned, maxChars, htmlSplitIndex, natural) ==
    SplitOrTruncate(found, cleaned, htmlSplitIndex, natural,
        IF natural
        THEN [newContent |-> Linkify(Substring(cleaned, 0, htmlSplitIndex))]
        ELSE TruncateTrace(cleaned, <<>>, maxChars))

ParseFound(cleaned, maxChars, bestIndex, htmlSplitIndex) ==
    ParseCleaned([cleaned |-> cleaned, maxChars |-> maxChars,
                  bestIndex |-> bestIndex, htmlSplitIndex |-> htmlSplitIndex],
                 cleaned, maxChars, htmlSplitIndex,
                 UseNaturalSplit(cleaned, htmlSplitIndex, maxChars))

ParseBody(cleaned, maxChars) ==
    ParseFound(cleaned, maxChars, BestIndex(cleaned), FindSplitIndex(cleaned))

\* parseEmailContent with everything it computes on the way.  path is "empty"
\* for the return of line 290, "natural" for the one of line 321, and
\* truncateHtml's otherwise.
\* A buggy variant of parseEmailContent: the test of line 290 is missing.
ParseTraceNoGuard(body, visibleCharLimit) ==
    ParseBody(Cleaned(body), MaxChars(body, visibleCharLimit))

ParseTrace(body, visibleCharLimit) ==
    IF Falsy(body) THEN Blank
    ELSE ParseBody(Cleaned(body), MaxChars(body, visibleCharLimit))

ParseEmailContent(body, visibleCharLimit) == Result(ParseTrace(body, visibleCharLimit))

----------------------------------------------------------------------------
(* processItem (lines 226-286) *)

PreviewLimit == 400

Placeholder == <<"Click to view content...">>

ChevronRight == "utility:chevronright"
ChevronDown == "utility:chevrondown"

Categories == {"Email", "Public", "Internal", "System"}

\* Line 245: fullText.replace(/\s+/g, ' '), every run of white space made
\* one space.
FirstOfRun(p) == ~(p[1] = " " /\ p[2])

CollapseSpaces(s) ==
    LET marked == [i \in 1..Len(s) |-> <<s[i], i > 1 /\ s[i - 1] = " ">>]
        kept == SelectSeq(marked, FirstOfRun)
    IN  [i \in 1..Len(kept) |-> kept[i][1]]

\* String.prototype.trim on a string whose runs of white space are single.
Trim(s) ==
    LET from == IF s # <<>> /\ Head(s) = " " THEN 2 ELSE 1
        to == IF Len(s) >= from /\ s[Len(s)] = " " THEN Len(s) - 1 ELSE Len(s)
    IN  SubSeq(s, from, to)

\* Lines 245-253: the preview of a body's text.
PreviewOf(fullText) ==
    LET cleanText == Trim(CollapseSpaces(fullText))
    IN  IF Len(cleanText) > 0 THEN Substring(cleanText, 0, PreviewLimit) ELSE Placeholder

\* Lines 237-254: previewText, '' unless the test of line 239 passes.
PreviewText(isSystemCategory, body) ==
    IF ~isSystemCategory /\ ~Falsy(body)
    THEN PreviewOf(TextContent(ParseFragment(body)))
    ELSE <<>>

\* Lines 229-234: an Email item takes its body, historyBody and hasHistory
\* from parseEmailContent.
WithParsed(item, parsed) ==
    [item EXCEPT !.body = parsed.newContent,
                 !.historyBody = parsed.historyContent,
                 !.hasHistory = parsed.hasHistory]

\* Lines 265-285: the returned record.
Assemble(processedItem, expandByDefault) ==
    [processedItem EXCEPT
        !.isExpanded = expandByDefault,
        !.historyExpanded = FALSE,
        !.previewText = PreviewText(processedItem.isSystemCategory, processedItem.body),
        !.isSystemCategory = processedItem.category = "System",
        !.showEmailInfo = FALSE,
        !.expandIcon = ChevronRight]

\* processItem.  An item of the data service has no historyBody, hasHistory
\* or view field yet: they are written here as undefined, false and ''.
ProcessItem(item, limit, expandByDefault) ==
    Assemble(IF item.category = "Email"
             THEN WithParsed(item, ParseEmailContent(item.body, limit))
             ELSE item,
             expandByDefault)

\* A record as the data service returns it.
TimelineItem(id, category, body, createdDate, isSystemCategory) ==
    [id |-> id, category |-> category, body |-> body, createdDate |-> createdDate,
     isSystemCategory |-> isSystemCategory,
     historyBody |-> UNDEFINED, hasHistory |-> FALSE,
     isExpanded |-> FALSE, historyExpanded |-> FALSE, previewText |-> <<>>,
     showEmailInfo |-> FALSE, expandIcon |-> ""]

----------------------------------------------------------------------------
(* The engine as a state machine: an input is drawn, and the function      *)
(* under study is applied to it.                                           *)

VARIABLES
    fullBody,          \* parseEmailContent's argument
    visibleCharLimit,  \* this.visibleCharLimit
    trace,             \* what parseEmailContent computed, path "none" before
    html,              \* findSplitIndex's argument
    split,             \* its candidate (bestIndex) and result, found FALSE before
    fragment,          \* linkify's argument
    doc,               \* doc.body's children when linkify last returned
    linked,            \* linkify's results, applied again to its own output
    item,              \* processItem's argument
    processed,         \* processItem's result, NotProcessed before
    this,              \* the component's fields
    calls,             \* the Apex calls in flight, in the order of issue
    tasks,             \* the browser's timers and the toasts dispatched
    log                \* what became of the page requests

engineVars == <<fullBody, trace, html, split, fragment, doc, linked>>

itemVars == <<item, processed>>

componentVars == <<this, calls, tasks, log>>

vars == <<fullBody, visibleCharLimit, trace, html, split, fragment, doc, linked,
          item, processed, this, calls, tasks, log>>

MaxFrags == 4
MaxLimit == 2
MaxSplitFrags == 3
MaxLinkFrags == 4
MaxRuns == 2

\* All concatenations of at most n of the fragments fs.
RECURSIVE Concats(_, _)
Concats(fs, n) ==
    IF n = 0 THEN {<<>>}
    ELSE Concats(fs, n - 1) \cup {f \o b : f \in fs, b \in Concats(fs, n - 1)}

BodyFragments ==
    {<<"w">>, <<"U">>, <<" ">>, <<"&lt;">>, <<"<", "b", ">">>, <<"<", "/", "b", ">">>,
     <<ON, WROTE>>}

SplitFragments ==
    {<<"w">>, <<">">>, <<"<", "b", " ">>, <<ON>>, <<WROTE>>, <<RULE>>, <<ORIG>>,
     <<FROM>>, <<SENT>>, BoldFrom, <<DE, " ", ENVOYE>>, <<DA, " ", INVIATO>>,
     <<"&lt;", "w", "@", "w", "&gt;">>}

LinkFragments ==
    {<<"w">>, <<"U">>, <<" ">>, <<".">>, <<"&lt;">>, <<"<", "a", ">">>,
     <<"<", "/", "a", ">">>, <<"<", "b", ">">>, <<"<", "/", "b", ">">>,
     <<"<", "style", ">">>}

NoTrace == [Blank EXCEPT !.path = "none"]

NoSplit == [found |-> FALSE, bestIndex |-> -1, index |-> -1]

\* No function of the engine is under study.
EngineIdle ==
    /\ fullBody = <<>>
    /\ trace = NoTrace
    /\ html = <<>>
    /\ split = NoSplit
    /\ fragment = <<>>
    /\ doc = <<>>
    /\ linked = <<>>

NotProcessed == TimelineItem(0, "none", <<>>, 0, FALSE)

ItemIdle == item = NotProcessed /\ processed = NotProcessed

DefaultBatchSize == 10
DefaultVisibleCharLimit == 1950

\* The fields of a new component (lines 9-43); undefined and null are
\* written 0 for lastRefreshDate and _pollingTimer, "" for recordId.
\* connected is the host's knowledge of whether the element is in the page.
Fields ==
    [allItems |-> <<>>,
     showEmail |-> TRUE, showPublic |-> TRUE, showInternal |-> TRUE,
     showSystem |-> FALSE,
     sortDirection |-> "desc",
     isLoading |-> FALSE, isLoadingMore |-> FALSE, error |-> "undefined",
     isNewDataAvailable |-> FALSE, hasMoreItems |-> TRUE,
     isSettingsOpen |-> FALSE,
     areAllExpanded |-> FALSE,
     useToastForUpdates |-> FALSE,
     lastRefreshDate |-> 0,
     pollingTimer |-> 0,
     recordId |-> "",
     batchSize |-> DefaultBatchSize,
     configLoaded |-> FALSE,
     expandByDefault |-> FALSE,
     connected |-> FALSE]

\* No interval is running, no setTimeout callback is pending, no toast of
\* checkServerForUpdates has been dispatched.
NoTasks == [intervals |-> {}, timeouts |-> 0, toasts |-> 0]

\* latestPage is the state of the page request issued last ("none" before
\* the first one); applied counts the pages handled since initialLoad ran
\* last, and notified the notices of new data raised since then (a toast
\* dispatched or isNewDataAvailable set).
NoLog == [latestPage |-> "none", applied |-> 0, notified |-> 0]

ComponentIdle == this = Fields /\ calls = <<>> /\ tasks = NoTasks /\ log = NoLog

\* processItem's call (line 231): the body of an Email item is parsed.
ParseInit ==
    /\ fullBody \in Concats(BodyFragments, MaxFrags) \cup {NULL, UNDEFINED}
    /\ visibleCharLimit \in 0..MaxLimit
    /\ trace = NoTrace
    /\ html = <<>>
    /\ split = NoSplit
    /\ fragment = <<>>
    /\ doc = <<>>
    /\ linked = <<>>
    /\ ItemIdle
    /\ ComponentIdle

DoParseEmailContent ==
    /\ trace.path = "none"
    /\ trace' = ParseTrace(fullBody, visibleCharLimit)
    /\ UNCHANGED <<fullBody, visibleCharLimit, html, split, fragment, doc, linked>>
    /\ UNCHANGED <<itemVars, componentVars>>

ParseNext == DoParseEmailContent

ParseSpec == ParseInit /\ [][ParseNext]_vars

MaxPad == 101

\* A text of k characters.
Pad(k) == [i \in 1..k |-> "w"]

\* A tag end, then a text of about SnapWindow characters, then a boundary.
SnapInputs == {<<">">> \o Pad(k) \o <<RULE>> : k \in (SnapWindow - 3)..MaxPad}

SplitInit ==
    /\ html \in Concats(SplitFragments, MaxSplitFrags) \cup SnapInputs
    /\ split = NoSplit
    /\ fullBody = <<>>
    /\ visibleCharLimit = 0
    /\ trace = NoTrace
    /\ fragment = <<>>
    /\ doc = <<>>
    /\ linked = <<>>
    /\ ItemIdle
    /\ ComponentIdle

DoFindSplitIndex ==
    /\ ~split.found
    /\ split' = [found |-> TRUE, bestIndex |-> BestIndex(html),
                 index |-> FindSplitIndex(html)]
    /\ UNCHANGED <<fullBody, visibleCharLimit, trace, html, fragment, doc, linked>>
    /\ UNCHANGED <<itemVars, componentVars>>

SplitNext == DoFindSplitIndex

SplitSpec == SplitInit /\ [][SplitNext]_vars

LinkifyInit ==
    /\ fragment \in Concats(LinkFragments, MaxLinkFrags)
    /\ doc = <<>>
    /\ linked = <<>>
    /\ fullBody = <<>>
    /\ visibleCharLimit = 0
    /\ trace = NoTrace
    /\ html = <<>>
    /\ split = NoSplit
    /\ ItemIdle
    /\ ComponentIdle

\* linkify, on the fragment and then on its own result.
DoLinkify ==
    /\ Len(linked) < MaxRuns
    /\ LET input == IF linked = <<>> THEN fragment ELSE Last(linked)
       IN  /\ doc' = IF input = <<>> THEN <<>> ELSE LinkifyDoc(input)
           /\ linked' = Append(linked, Linkify(input))
    /\ UNCHANGED <<fullBody, visibleCharLimit, trace, html, split, fragment>>
    /\ UNCHANGED <<itemVars, componentVars>>

LinkifyNext == DoLinkify

LinkifySpec == LinkifyInit /\ [][LinkifyNext]_vars

MaxItemFrags == 2
MaxPreviewPad == 401

\* Bodies of items: short ones, null and undefined, and one with runs of
\* white space.
ItemBodies ==
    Concats(BodyFragments, MaxItemFrags) \cup {NULL, UNDEFINED}
    \cup {<<" ", "w", " ", " ", "w", " ">>}

\* Comments with a text of about PreviewLimit characters.
LongBodies == {Pad(k) : k \in (PreviewLimit - 1)..MaxPreviewPad}

\* fetchData's data.map (line 211): an item of the data service is processed.
ItemInit ==
    /\ item \in {TimelineItem(1, c, b, 1, s) :
                    c \in Categories, b \in ItemBodies, s \in BOOLEAN}
               \cup {TimelineItem(1, c, b, 1, FALSE) :
                    c \in {"Public", "Internal"}, b \in LongBodies}
    /\ processed = NotProcessed
    /\ visibleCharLimit \in 0..MaxLimit
    /\ this \in {[Fields EXCEPT !.expandByDefault = e] : e \in BOOLEAN}
    /\ calls = <<>>
    /\ tasks = NoTasks
    /\ log = NoLog
    /\ EngineIdle

DoProcessItem ==
    /\ processed = NotProcessed
    /\ processed' = ProcessItem(item, visibleCharLimit, this.expandByDefault)
    /\ UNCHANGED <<engineVars, visibleCharLimit, item, componentVars>>

ItemNext == DoProcessItem

ItemSpec == ItemInit /\ [][ItemNext]_vars

----------------------------------------------------------------------------
(* The component as a state machine.  The Apex controller                  *)
(* (getTimelineConfig, getTimelineData, checkForNewItems) is not among the  *)
(* sources; it is written here as the data service the component expects:  *)
(* the records of a case, paginated by a reference timestamp and a page     *)
(* size, each page in the order asked for.                                  *)

NumRecords == 3
MaxCalls == 2
MaxLoads == 2
MaxItems == 4
ConfigBatchSize == 2
ConfigCharLimit == 1

CaseId == "500"

\* The case's records on the server: record n was created at time n.
ServerRecords ==
    [n \in 1..NumRecords |->
        CASE n = 1 -> TimelineItem(1, "Email", <<"w", "w">>, 1, FALSE)
          [] n = 2 -> TimelineItem(2, "Public", <<"w">>, 2, FALSE)
          [] OTHER -> TimelineItem(n, "System", <<>>, n, TRUE)]

\* The records in the order asked for.
InOrder(sortDirection) ==
    [i \in 1..NumRecords |->
        ServerRecords[IF sortDirection = "asc" THEN i ELSE NumRecords + 1 - i]]

\* getTimelineData: the records of the case that follow the reference date
\* (0 for null: from the start) in the order asked for, limitSize at most.
Page(caseId, referenceDate, limitSize, sortDirection) ==
    LET Beyond(r) ==
            \/ referenceDate = 0
            \/ sortDirection = "asc" /\ r.createdDate > referenceDate
            \/ sortDirection # "asc" /\ r.createdDate < referenceDate
        rest == IF caseId = CaseId THEN SelectSeq(InOrder(sortDirection), Beyond)
                ELSE <<>>
    IN  SubSeq(rest, 1, Min2(limitSize, Len(rest)))

\* getTimelineConfig's answers.
ConfigOptions ==
    {[batchSize |-> ConfigBatchSize, visibleCharLimit |-> ConfigCharLimit,
      defaultEmail |-> TRUE, defaultPublic |-> TRUE, defaultInternal |-> TRUE,
      defaultSystem |-> TRUE, useToastForUpdates |-> b,
      expandByDefault |-> b, newestFirst |-> ~b] : b \in BOOLEAN}

\* The Apex calls as issued, with their arguments.
ConfigCall ==
    [kind |-> "config", origin |-> "init", caseId |-> "", referenceDate |-> 0,
     limitSize |-> 0, sortDirection |-> "", lastCheckDate |-> 0]

\* fetchData's request (lines 184-190).
FetchData(t, referenceDate, origin) ==
    [kind |-> "data", origin |-> origin, caseId |-> t.recordId,
     referenceDate |-> referenceDate, limitSize |-> t.batchSize,
     sortDirection |-> t.sortDirection, lastCheckDate |-> 0]

\* checkServerForUpdates' request (line 119).
CheckCall(t) ==
    [kind |-> "check", origin |-> "poll", caseId |-> t.recordId,
     referenceDate |-> 0, limitSize |-> 0, sortDirection |-> "",
     lastCheckDate |-> t.lastRefreshDate]

InFlight(kind) == {i \in 1..Len(calls) : calls[i].kind = kind}

\* The page request issued last is in flight, at position i.
IsLatestPage(i) ==
    /\ log.latestPage = "open"
    /\ \A j \in InFlight("data") : j <= i

CanCall == Len(calls) < MaxCalls

CanLoad == this.lastRefreshDate < MaxLoads

\* stopPolling (lines 112-114).
StopPolling(t) == [t EXCEPT !.pollingTimer = 0]

Cleared(tk, t) == [tk EXCEPT !.intervals = @ \ {t.pollingTimer}]

\* startPolling's setInterval (line 109): the interval's id is a new one.
NewTimer(tk) ==
    1 + (CHOOSE m \in tk.intervals \cup {0} : \A n \in tk.intervals \cup {0} : n <= m)

\* initialLoad (lines 144-161) up to its request; the continuation is in
\* DataResponse and DataFailure.  new Date() is the number of the load.
InitialLoad(t, cs, tk) ==
    IF t.recordId = "" \/ ~t.configLoaded
    THEN this' = t /\ calls' = cs /\ tasks' = tk /\ log' = log
    ELSE LET t1 == [StopPolling(t) EXCEPT
                        !.isLoading = TRUE, !.allItems = <<>>,
                        !.hasMoreItems = TRUE, !.error = "undefined",
                        !.isNewDataAvailable = FALSE,
                        !.lastRefreshDate = @ + 1]
         IN  /\ this' = t1
             /\ calls' = Append(cs, FetchData(t1, 0, "initialLoad"))
             /\ tasks' = Cleared(tk, t)
             /\ log' = [latestPage |-> "open", applied |-> 0, notified |-> 0]

\* init (lines 59-62) up to its await.
InitCall(t) ==
    /\ this' = [t EXCEPT !.isLoading = TRUE]
    /\ calls' = Append(calls, ConfigCall)

Init ==
    /\ this = Fields
    /\ calls = <<>>
    /\ tasks = NoTasks
    /\ log = NoLog
    /\ visibleCharLimit = DefaultVisibleCharLimit
    /\ EngineIdle
    /\ ItemIdle

\* The recordId setter (lines 47-50).
SetRecordId ==
    /\ CanCall
    /\ CanLoad
    /\ InitialLoad([this EXCEPT !.recordId = CaseId], calls, tasks)
    /\ UNCHANGED <<engineVars, itemVars, visibleCharLimit>>

\* connectedCallback (lines 53-55).
ConnectedCallback ==
    /\ ~this.connected
    /\ CanCall
    /\ IF this.recordId # ""
       THEN InitCall([this EXCEPT !.connected = TRUE])
       ELSE this' = [this EXCEPT !.connected = TRUE] /\ calls' = calls
    /\ UNCHANGED <<engineVars, itemVars, visibleCharLimit, tasks, log>>

\* disconnectedCallback (line 57).
DisconnectedCallback ==
    /\ this.connected
    /\ this' = [StopPolling(this) EXCEPT !.connected = FALSE]
    /\ tasks' = Cleared(tasks, this)
    /\ UNCHANGED <<engineVars, itemVars, visibleCharLimit, calls, log>>

\* init after its await (lines 62-96): the configuration is taken over.
ConfigResponse ==
    \E i \in InFlight("config"), config \in ConfigOptions :
        /\ CanLoad
        /\ visibleCharLimit' = config.visibleCharLimit
        /\ InitialLoad([this EXCEPT
                            !.batchSize = config.batchSize,
                            !.showEmail = config.defaultEmail,
                            !.showPublic = config.defaultPublic,
                            !.showInternal = config.defaultInternal,
                            !.showSystem = config.defaultSystem,
                            !.useToastForUpdates = config.useToastForUpdates,
                            !.expandByDefault = config.expandByDefault,
                            !.areAllExpanded = config.expandByDefault,
                            !.sortDirection =
                                IF config.newestFirst THEN "desc" ELSE "asc",
                            !.configLoaded = TRUE],
                       RemoveAt(calls, i), tasks)
        /\ UNCHANGED <<engineVars, itemVars>>

\* init's catch (lines 97-101).
ConfigFailure ==
    \E i \in InFlight("config") :
        /\ CanLoad
        /\ InitialLoad([this EXCEPT !.configLoaded = TRUE], RemoveAt(calls, i), tasks)
        /\ UNCHANGED <<engineVars, itemVars, visibleCharLimit>>

\* handleRefresh (lines 162-168).
HandleRefresh ==
    /\ CanCall
    /\ CanLoad
    /\ InitialLoad(this, calls, tasks)
    /\ UNCHANGED <<engineVars, itemVars, visibleCharLimit>>

\* handleSortToggle (lines 727-733).
HandleSortToggle ==
    /\ CanCall
    /\ CanLoad
    /\ InitialLoad([this EXCEPT !.sortDirection =
                        IF @ = "desc" THEN "asc" ELSE "desc"], calls, tasks)
    /\ UNCHANGED <<engineVars, itemVars, visibleCharLimit>>

\* handleLoadMore (lines 169-181) up to its request.
HandleLoadMore ==
    /\ CanCall
    /\ ~(~this.hasMoreItems \/ this.isLoadingMore)
    /\ LET lastDate == IF this.allItems = <<>> THEN 0
                       ELSE Last(this.allItems).createdDate
       IN  /\ this' = [this EXCEPT !.isLoadingMore = TRUE]
           /\ calls' = Append(calls, FetchData(this, lastDate, "handleLoadMore"))
    /\ log' = [log EXCEPT !.latestPage = "open"]
    /\ UNCHANGED <<engineVars, itemVars, visibleCharLimit, tasks>>

\* The then-callback of the caller of fetchData: initialLoad's (lines
\* 156-160, its setTimeout callback is StartPollingTimeout) or
\* handleLoadMore's (lines 177-180).  renderedCallback writes to the page only.
Continue(origin, t, tk) ==
    IF origin = "initialLoad"
    THEN /\ this' = [t EXCEPT !.isLoading = FALSE]
         /\ tasks' = [tk EXCEPT !.timeouts = @ + 1]
    ELSE /\ this' = [t EXCEPT !.isLoadingMore = FALSE]
         /\ tasks' = tk

\* data.map(this.processItem.bind(this)) (line 211).
ProcessAll(data, limit, expandByDefault) ==
    [k \in 1..Len(data) |-> ProcessItem(data[k], limit, expandByDefault)]

\* fetchData's then-callback (lines 191-218).
Received(t, data, limit) ==
    LET t1 == IF Len(data) < t.batchSize THEN [t EXCEPT !.hasMoreItems = FALSE]
              ELSE t
    IN  IF Len(data) > 0
        THEN [t1 EXCEPT !.allItems = @ \o ProcessAll(data, limit, t.expandByDefault)]
        ELSE [t1 EXCEPT !.hasMoreItems = FALSE]

\* A getTimelineData promise is fulfilled.
DataResponse ==
    \E i \in InFlight("data") :
        LET c == calls[i]
            data == Page(c.caseId, c.referenceDate, c.limitSize, c.sortDirection)
        IN  /\ Len(this.allItems) + Len(data) <= MaxItems
            /\ calls' = RemoveAt(calls, i)
            /\ Continue(c.origin, Received(this, data, visibleCharLimit), tasks)
            /\ log' = [log EXCEPT
                           !.latestPage =
                               IF ~IsLatestPage(i) THEN @
                               ELSE IF Len(data) = c.limitSize THEN "full" ELSE "short",
                           !.applied = Min2(@ + 1, 1)]
            /\ UNCHANGED <<engineVars, itemVars, visibleCharLimit>>

\* A catch that treats the failure as an empty page.
CaughtAsEmptyPage(t) ==
    [t EXCEPT !.error = "error", !.isLoading = FALSE, !.isLoadingMore = FALSE,
              !.hasMoreItems = FALSE]

\* fetchData's catch (lines 219-223).
Caught(t) ==
    [t EXCEPT !.error = "error", !.isLoading = FALSE, !.isLoadingMore = FALSE]

\* A getTimelineData promise is rejected: fetchData's catch, after which the
\* caller's then-callback runs.
DataFailure ==
    \E i \in InFlight("data") :
        /\ calls' = RemoveAt(calls, i)
        /\ Continue(calls[i].origin, Caught(this), tasks)
        /\ log' = [log EXCEPT !.latestPage = IF IsLatestPage(i) THEN "failed" ELSE @]
        /\ UNCHANGED <<engineVars, itemVars, visibleCharLimit>>

\* The setTimeout callback of initialLoad (line 159): startPolling.
StartPollingTimeout ==
    /\ tasks.timeouts > 0
    /\ LET tk == Cleared(tasks, this)
           id == NewTimer(tk)
       IN  /\ this' = [this EXCEPT !.pollingTimer = id]
           /\ tasks' = [tk EXCEPT !.timeouts = @ - 1, !.intervals = @ \cup {id}]
    /\ UNCHANGED <<engineVars, itemVars, visibleCharLimit, calls, log>>

\* An interval fires: checkServerForUpdates up to its request (lines 116-119).
PollTick ==
    /\ tasks.intervals # {}
    /\ CanCall
    /\ ~(this.recordId = "" \/ this.lastRefreshDate = 0)
    /\ calls' = Append(calls, CheckCall(this))
    /\ UNCHANGED <<engineVars, itemVars, visibleCharLimit, this, tasks, log>>

\* checkForNewItems' then-callback (lines 120-140).
CheckResponse ==
    \E i \in InFlight("check"), hasNewData \in BOOLEAN :
        /\ calls' = RemoveAt(calls, i)
        /\ IF hasNewData
           THEN /\ this' = IF this.useToastForUpdates THEN StopPolling(this)
                           ELSE [StopPolling(this) EXCEPT !.isNewDataAvailable = TRUE]
                /\ tasks' = IF this.useToastForUpdates
                            THEN [Cleared(tasks, this) EXCEPT !.toasts = @ + 1]
                            ELSE Cleared(tasks, this)
           ELSE UNCHANGED <<this, tasks>>
        /\ log' = [log EXCEPT !.notified = IF hasNewData THEN @ + 1 ELSE @]
        /\ UNCHANGED <<engineVars, itemVars, visibleCharLimit>>

\* checkForNewItems' catch (line 140): console.error.
CheckFailure ==
    \E i \in InFlight("check") :
        /\ calls' = RemoveAt(calls, i)
        /\ UNCHANGED <<engineVars, itemVars, visibleCharLimit, this, tasks, log>>

\* The getter filteredData (lines 706-716).
Shown(t, category) ==
    \/ category = "Email" /\ t.showEmail
    \/ category = "Public" /\ t.showPublic
    \/ category = "Internal" /\ t.showInternal
    \/ category = "System" /\ t.showSystem

FilteredData(t) ==
    LET Visible(it) == Shown(t, it.category)
    IN  SelectSeq(t.allItems, Visible)

\* The ids a click can carry: those of the records on the page.
Rendered(t) == {FilteredData(t)[k].id : k \in 1..Len(FilteredData(t))}

\* handleTitleClick's map (lines 748-758; lines 489-499 are the same).
TitleClicked(allItems, clickedId) ==
    [k \in 1..Len(allItems) |->
        IF allItems[k].id = clickedId
        THEN [allItems[k] EXCEPT
                 !.isExpanded = ~@,
                 !.expandIcon = IF ~allItems[k].isExpanded THEN ChevronDown
                                ELSE ChevronRight]
        ELSE allItems[k]]

\* handleTitleClick (lines 744-762).
HandleTitleClick(clickedId) ==
    /\ clickedId \in Rendered(this)
    /\ this' = [this EXCEPT !.allItems = TitleClicked(@, clickedId)]
    /\ UNCHANGED <<engineVars, itemVars, visibleCharLimit, calls, tasks, log>>

\* handleHistoryToggle's map (lines 738-741; lines 523-526 are the same).
HistoryToggled(allItems, clickedId) ==
    [k \in 1..Len(allItems) |->
        IF allItems[k].id = clickedId
        THEN [allItems[k] EXCEPT !.historyExpanded = ~@]
        ELSE allItems[k]]

\* handleHistoryToggle (lines 735-742).
HandleHistoryToggle(clickedId) ==
    /\ clickedId \in Rendered(this)
    /\ this' = [this EXCEPT !.allItems = HistoryToggled(@, clickedId)]
    /\ UNCHANGED <<engineVars, itemVars, visibleCharLimit, calls, tasks, log>>

\* handleExpandCollapseAll (lines 507-518).
HandleExpandCollapseAll ==
    /\ this' = [this EXCEPT
                   !.areAllExpanded = ~@,
                   !.allItems =
                       [k \in 1..Len(@) |->
                           [@[k] EXCEPT
                               !.isExpanded = ~this.areAllExpanded,
                               !.expandIcon = IF ~this.areAllExpanded
                                              THEN ChevronDown ELSE ChevronRight]]]
    /\ UNCHANGED <<engineVars, itemVars, visibleCharLimit, calls, tasks, log>>

\* handleCollapseAll (line 734).
HandleCollapseAll ==
    /\ this' = [this EXCEPT
                   !.allItems = [k \in 1..Len(@) |->
                                    [@[k] EXCEPT !.historyExpanded = FALSE]]]
    /\ UNCHANGED <<engineVars, itemVars, visibleCharLimit, calls, tasks, log>>

\* handleToggle (lines 718-725).
HandleToggle(name, checked) ==
    /\ this' = [this EXCEPT
                   !.showEmail = IF name = "email" THEN checked ELSE @,
                   !.showPublic = IF name = "public" THEN checked ELSE @,
                   !.showInternal = IF name = "internal" THEN checked ELSE @,
                   !.showSystem = IF name = "system" THEN checked ELSE @]
    /\ UNCHANGED <<engineVars, itemVars, visibleCharLimit, calls, tasks, log>>

\* handleEmailInfoToggle (lines 802-815).
HandleEmailInfoToggle(itemId) ==
    /\ itemId \in Rendered(this)
    /\ this' = [this EXCEPT
                   !.allItems = [k \in 1..Len(@) |->
                                    IF @[k].id = itemId
                                    THEN [@[k] EXCEPT !.showEmailInfo = ~@]
                                    ELSE @[k]]]
    /\ UNCHANGED <<engineVars, itemVars, visibleCharLimit, calls, tasks, log>>

\* handleEmailInfoClose (lines 817-828).
HandleEmailInfoClose(itemId) ==
    /\ itemId \in Rendered(this)
    /\ this' = [this EXCEPT
                   !.allItems = [k \in 1..Len(@) |->
                                    IF @[k].id = itemId
                                    THEN [@[k] EXCEPT !.showEmailInfo = FALSE]
                                    ELSE @[k]]]
    /\ UNCHANGED <<engineVars, itemVars, visibleCharLimit, calls, tasks, log>>

\* handleSettingsClick (lines 776-778).
HandleSettingsClick ==
    /\ this' = [this EXCEPT !.isSettingsOpen = TRUE]
    /\ UNCHANGED <<engineVars, itemVars, visibleCharLimit, calls, tasks, log>>

\* handleModalClose (lines 780-782).
HandleModalClose ==
    /\ this' = [this EXCEPT !.isSettingsOpen = FALSE]
    /\ UNCHANGED <<engineVars, itemVars, visibleCharLimit, calls, tasks, log>>

\* handleSettingsSuccess (lines 784-800): the form of the open settings
\* dialog was saved.
HandleSettingsSuccess ==
    /\ this.isSettingsOpen
    /\ CanCall
    /\ InitCall([this EXCEPT !.isSettingsOpen = FALSE, !.isLoading = TRUE,
                             !.configLoaded = FALSE])
    /\ UNCHANGED <<engineVars, itemVars, visibleCharLimit, tasks, log>>

Next ==
    \/ SetRecordId
    \/ ConnectedCallback
    \/ DisconnectedCallback
    \/ ConfigResponse
    \/ ConfigFailure
    \/ HandleRefresh
    \/ HandleSortToggle
    \/ HandleLoadMore
    \/ DataResponse
    \/ DataFailure
    \/ StartPollingTimeout
    \/ PollTick
    \/ CheckResponse
    \/ CheckFailure
    \/ HandleSettingsClick
    \/ HandleModalClose
    \/ HandleSettingsSuccess

Spec == Init /\ [][Next]_vars

\* The user's clicks on a loaded page.  The page is the first one followed
\* by the one handleLoadMore asked for, or by the first one again (two
\* overlapping loads).
LoadedItems(d, e, twice) ==
    LET first == Page(CaseId, 0, ConfigBatchSize, d)
        second == Page(CaseId, IF twice THEN 0 ELSE Last(first).createdDate,
                       ConfigBatchSize, d)
    IN  ProcessAll(first \o second, ConfigCharLimit, e)

ViewInit ==
    /\ \E d \in {"asc", "desc"}, e \in BOOLEAN, twice \in BOOLEAN :
           /\ this = [Fields EXCEPT
                         !.recordId = CaseId, !.connected = TRUE,
                         !.configLoaded = TRUE, !.batchSize = ConfigBatchSize,
                         !.showSystem = TRUE, !.sortDirection = d,
                         !.expandByDefault = e, !.areAllExpanded = e,
                         !.hasMoreItems = twice,
                         !.lastRefreshDate = IF twice THEN 2 ELSE 1,
                         !.allItems = LoadedItems(d, e, twice)]
           /\ tasks = [NoTasks EXCEPT !.timeouts = IF twice THEN 2 ELSE 1]
           /\ log = [latestPage |-> IF twice THEN "full" ELSE "short",
                     applied |-> 1, notified |-> 0]
    /\ calls = <<>>
    /\ visibleCharLimit = ConfigCharLimit
    /\ EngineIdle
    /\ ItemIdle

ViewNext ==
    \/ \E clickedId \in 1..NumRecords : HandleTitleClick(clickedId)
    \/ \E clickedId \in 1..NumRecords : HandleHistoryToggle(clickedId)
    \/ HandleExpandCollapseAll
    \/ HandleCollapseAll
    \/ \E name \in {"email", "public", "internal", "system"}, checked \in BOOLEAN :
           HandleToggle(name, checked)
    \/ \E itemId \in 1..NumRecords : HandleEmailInfoToggle(itemId)
    \/ \E itemId \in 1..NumRecords : HandleEmailInfoClose(itemId)

ViewSpec == ViewInit /\ [][ViewNext]_vars

----------------------------------------------------------------------------
(* Properties *)

\* The plain text of an HTML string: what tempDiv.innerHTML = h, then
\* tempDiv.innerText, gives (lines 240-242 and 310-313).
PlainText(h) == TextContent(ParseFragment(h))

EndsWith(s, w) == Len(s) >= Len(w) /\ SubSeq(s, Len(s) - Len(w) + 1, Len(s)) = w

StripMarker(s) == IF EndsWith(s, Ellipsis) THEN SubSeq(s, 1, Len(s) - Len(Ellipsis)) ELSE s

Parsed == trace.path \notin {"none", "empty"}

Prefix == Substring(trace.cleaned, 0, trace.htmlSplitIndex)

\* Some text node of the tree holds a URL and has no anchor as its parent.
RECURSIVE HasBareUrl(_, _)
HasBareUrl(ks, parentName) ==
    \E i \in 1..Len(ks) :
        IF ks[i].kind = "text" THEN parentName # <<"a">> /\ HasUrl(ks[i].text)
        ELSE HasBareUrl(ks[i].kids, ks[i].name)

\* The tokens of a string are well nested: every end tag closes the element
\* opened last, and no element is left open.
RECURSIVE Nested(_, _, _)
Nested(ts, i, open) ==
    IF i > Len(ts) THEN open = <<>>
    ELSE IF ts[i].k = "start" /\ ts[i].name \notin VoidNames
    THEN Nested(ts, i + 1, Append(open, ts[i].name))
    ELSE IF ts[i].k = "end"
    THEN open # <<>> /\ Last(open) = ts[i].name /\ Nested(ts, i + 1, Front(open))
    ELSE Nested(ts, i + 1, open)

WellNested(h) == Nested(Tokenize(h), 1, <<>>)

\* C1: no text is lost: the plain text of newContent (without the "..."
\* marker of the structural path) followed by the plain text of
\* historyContent is the plain text of the sanitized body, on every path.
\* Leading white space is left out of the comparison.
C1_NoTextLost ==
    Parsed =>
        TrimStart((IF trace.path = "structural"
                   THEN StripMarker(PlainText(trace.newContent))
                   ELSE PlainText(trace.newContent))
                  \o PlainText(trace.historyContent))
        = TrimStart(PlainText(trace.cleaned))

\* C2: whenever findSplitIndex finds a boundary (any result but -1, offset 0
\* included) and the plain text before it fits the budget, the result is the
\* natural split: the history is the body from the boundary on, hasHistory
\* is true, and truncateHtml is not run.
C2_NaturalSplitWheneverBoundary ==
    (/\ Parsed
     /\ trace.htmlSplitIndex # -1
     /\ Len(PlainText(Prefix)) <= trace.maxChars)
    => /\ trace.path = "natural"
       /\ trace.newContent = Linkify(Prefix)
       /\ trace.historyContent = SubstringFrom(trace.cleaned, trace.htmlSplitIndex)
       /\ trace.hasHistory

\* The offsets at which the patterns first match.
MatchOffsets == {PatternExec(k, html) : k \in 1..NumPatterns} \ {-1}

Reverse(s) == [i \in 1..Len(s) |-> s[Len(s) + 1 - i]]

\* C3: the candidate offset is the least of the offsets at which the patterns
\* first match, the same when the list of patterns is walked in the reverse
\* order, and findSplitIndex returns -1 exactly when no pattern matches.
C3_EarliestMatchWins ==
    split.found =>
        /\ MatchOffsets = {} <=> split.bestIndex = -1
        /\ MatchOffsets = {} <=> split.index = -1
        /\ MatchOffsets # {} =>
               /\ split.bestIndex \in MatchOffsets
               /\ \A m \in MatchOffsets : split.bestIndex <= m
        /\ BestIndexLoop(html, Reverse(PatternOrder), -1) = split.bestIndex

\* Two patterns match, and the one later in the list matches earlier in the
\* string; findSplitIndex has run.
C3_Witness ==
    /\ split.found
    /\ \E j, k \in 1..NumPatterns :
           /\ j < k
           /\ PatternExec(k, html) # -1
           /\ PatternExec(k, html) < PatternExec(j, html)
           /\ split.bestIndex = PatternExec(k, html)

\* C4: on the structural path the head tree holds exactly the first maxChars
\* characters of the body's text and the tail tree exactly the rest, so no
\* text node visited after the budget was reached adds a character to head.
C4_HeadIsTextPrefix ==
    trace.path = "structural" =>
        LET text == TextContent(trace.body)
        IN  /\ Len(text) > trace.maxChars
            /\ TextContent(trace.headRoot) = SubSeq(text, 1, trace.maxChars)
            /\ TextContent(trace.tailRoot) = SubSeq(text, trace.maxChars + 1, Len(text))

\* The structural path was taken, the budget ran out inside a text node, and
\* a text node was visited after that.
C4_Witness ==
    /\ trace.path = "structural"
    /\ trace.maxChars >= 1
    /\ TextContent(trace.headRoot) # <<>>
    /\ Len(trace.tailRoot) >= 2
    /\ Head(trace.tailRoot).kind = "text"
    /\ TextContent(Tail(trace.tailRoot)) # <<>>

\* C5: both outputs of the structural truncator are well nested: every
\* element opened in head is closed in head, and every element opened in
\* tail is closed in tail.
C5_BothSidesWellNested ==
    trace.path = "structural" =>
        WellNested(trace.headHtml) /\ WellNested(trace.overflowHtml)

\* The structural path was taken and the split cuts an element: its clone is
\* the last node of head and the first node of tail.
C5_Witness ==
    /\ trace.path = "structural"
    /\ trace.headRoot # <<>>
    /\ trace.tailRoot # <<>>
    /\ Last(trace.headRoot).kind = "el"
    /\ Head(trace.tailRoot).kind = "el"
    /\ Last(trace.headRoot).name = Head(trace.tailRoot).name
    /\ TextContent(trace.headRoot) # <<>>

\* C6: linkify is idempotent: applied to its own result it returns that
\* result unchanged.
C6_LinkifyIdempotent == Len(linked) >= 2 => linked[2] = linked[1]

Protecting == {<<"a">>, <<"script">>, <<"style">>}

\* The tree in which exactly the URL-bearing text nodes that have no anchor,
\* script or style among their ancestors are replaced by linkify's span.
RECURSIVE RewriteOutside(_, _)
RewriteOutside(ks, protected) ==
    [i \in 1..Len(ks) |->
        IF ks[i].kind = "text"
        THEN IF ~protected /\ HasUrl(ks[i].text) THEN NewSpan(ks[i].text) ELSE ks[i]
        ELSE Element(ks[i].name, ks[i].attrs,
                     RewriteOutside(ks[i].kids, protected \/ ks[i].name \in Protecting))]

\* C7: linkify leaves every text node below an anchor, script or style
\* element (at any depth) as it is, and rewrites every URL-bearing text node
\* outside such subtrees.
C7_AnchorSubtreesUntouched ==
    Len(linked) = 1 => doc = RewriteOutside(ParseDocument(fragment), FALSE)

\* The names of all elements of a tree, in document order.
RECURSIVE ElementNames(_)
ElementNames(ks) ==
    IF ks = <<>> THEN <<>>
    ELSE (IF Head(ks).kind = "el"
          THEN <<Head(ks).name>> \o ElementNames(Head(ks).kids) ELSE <<>>)
         \o ElementNames(Tail(ks))

\* The elements linkify did not insert: all but its spans and anchors.
RECURSIVE SourceElements(_)
SourceElements(ns) ==
    IF ns = <<>> THEN <<>>
    ELSE (IF Head(ns) \in {<<"span">>, <<"a">>} THEN <<>> ELSE <<Head(ns)>>)
         \o SourceElements(Tail(ns))

\* Every anchor that carries linkify's attributes wraps exactly the URL of
\* its href.
RECURSIVE AnchorsWrapUrl(_)
AnchorsWrapUrl(ks) ==
    \A i \in 1..Len(ks) :
        ks[i].kind = "el" =>
            /\ AnchorsWrapUrl(ks[i].kids)
            /\ (ks[i].name = <<"a">> /\ ks[i].attrs # <<>>) =>
                   /\ Len(ks[i].kids) = 1
                   /\ ks[i].kids[1].kind = "text"
                   /\ ks[i].attrs = <<HREF>> \o ks[i].kids[1].text \o <<BLANK>>

\* C8: linkify changes nothing but the wrapping of URLs: the text of the
\* result is the text of the input, no element but the anchors and their
\* wrappers is created, and every inserted anchor wraps one URL.
C8_OnlyWrapsUrls ==
    Len(linked) = 1 =>
        LET src == ParseDocument(fragment)
        IN  /\ TextContent(doc) = TextContent(src)
            /\ PlainText(linked[1]) = TextContent(src)
            /\ SourceElements(ElementNames(doc)) = SourceElements(ElementNames(src))
            /\ AnchorsWrapUrl(doc)

\* C9: linkify is applied to both buckets: on the natural and on the
\* structural path no URL of the history is left outside an anchor.
C9_HistoryLinkified ==
    trace.path \in {"natural", "structural"} =>
        ~HasBareUrl(ParseFragment(trace.historyContent), <<"div">>)

\* A token sequence with adjacent character tokens written as one.
RECURSIVE Joined(_)
Joined(ts) ==
    IF Len(ts) < 2 THEN ts
    ELSE IF ts[1].k = "char" /\ ts[2].k = "char"
         THEN Joined(<<RunTok(ts[1].text \o ts[2].text)>> \o SubSeq(ts, 3, Len(ts)))
         ELSE <<ts[1]>> \o Joined(Tail(ts))

\* Cutting the string at offset p cuts through a tag.
CutsMarkup(h, p) ==
    Joined(Tokenize(Substring(h, 0, p)) \o Tokenize(SubstringFrom(h, p)))
        # Joined(Tokenize(h))

\* The string before offset p ends with the ">" of a tag.
AfterTag(h, p) ==
    LET ts == Tokenize(Substring(h, 0, p))
    IN  ts # <<>> /\ Last(ts).k \in {"start", "end"}

\* C10: a split position lies outside markup: it is never inside a tag, and
\* a snapped position (one that follows a ">") follows the end of a tag.
C10_SplitOutsideMarkup ==
    (split.found /\ split.index # -1) =>
        /\ ~CutsMarkup(html, split.index)
        /\ (split.index >= 1 /\ html[split.index] = ">") => AfterTag(html, split.index)

\* The nearest ">" before offset b: its 0-based offset, or -1.
NearestClose(h, b) ==
    LET ps == {p \in 0..(b - 1) : h[p + 1] = ">"}
    IN  IF ps = {} THEN -1 ELSE CHOOSE p \in ps : \A q \in ps : q <= p

\* C11: findSplitIndex returns the offset after the nearest ">" before the
\* candidate when that ">" is at most 100 characters before it (exactly 100
\* included), and the candidate itself when there is none or it is farther.
C11_SnapWithinHundred ==
    (split.found /\ split.bestIndex # -1) =>
        LET p == NearestClose(html, split.bestIndex)
        IN  split.index = IF p # -1 /\ split.bestIndex - p <= 100
                          THEN p + 1
                          ELSE split.bestIndex

\* Every element of the tree holds at least one character of text.
RECURSIVE NoEmptyShell(_)
NoEmptyShell(ks) ==
    \A i \in 1..Len(ks) :
        ks[i].kind = "el" =>
            TextContent(ks[i].kids) # <<>> /\ NoEmptyShell(ks[i].kids)

\* C12: in the structural truncator an element is attached to head only if
\* its subtree gave head at least one character, and to tail only if it gave
\* tail at least one character: neither side holds an empty shell.
C12_NoEmptyShells ==
    trace.path = "structural" =>
        NoEmptyShell(trace.headRoot) /\ NoEmptyShell(trace.tailRoot)

\* The tree with every element marked by its place in the source: attrs
\* becomes the pair of the element's path from the root and its attributes.
RECURSIVE Label(_, _)
Label(ks, path) ==
    [i \in 1..Len(ks) |->
        IF ks[i].kind = "text" THEN ks[i]
        ELSE Element(ks[i].name, <<path \o <<i>>, ks[i].attrs>>,
                     Label(ks[i].kids, path \o <<i>>))]

RECURSIVE Unlabel(_)
Unlabel(ks) ==
    [i \in 1..Len(ks) |->
        IF ks[i].kind = "text" THEN ks[i]
        ELSE Element(ks[i].name, ks[i].attrs[2], Unlabel(ks[i].kids))]

\* The elements of a marked tree: place, tag, attributes and parent's place.
RECURSIVE Elems(_, _)
Elems(ks, parent) ==
    UNION {IF ks[i].kind = "text" THEN {}
           ELSE {[id |-> ks[i].attrs[1], name |-> ks[i].name,
                  attrs |-> ks[i].attrs[2], parent |-> parent]}
                \cup Elems(ks[i].kids, ks[i].attrs[1]) : i \in 1..Len(ks)}

RECURSIVE ElementCount(_)
ElementCount(ks) ==
    IF ks = <<>> THEN 0
    ELSE (IF Head(ks).kind = "el" THEN 1 + ElementCount(Head(ks).kids) ELSE 0)
         + ElementCount(Tail(ks))

\* The text node at which the budget runs out, the first that does not fit
\* in what is left of maxChars: count is the text before ks, the result
\* [found, path, count].
RECURSIVE CutNode(_, _, _, _)
CutNode(ks, path, count, maxChars) ==
    IF ks = <<>> THEN [found |-> FALSE, path |-> <<>>, count |-> count]
    ELSE LET n == Head(ks)
             here == path \o <<1>>
             rest(c) == LET r == CutNode(Tail(ks), path, c, maxChars)
                        IN  IF r.found
                            THEN [r EXCEPT !.path =
                                     path \o <<r.path[Len(path) + 1] + 1>>
                                     \o SubSeq(r.path, Len(path) + 2, Len(r.path))]
                            ELSE r
         IN  IF n.kind = "text"
             THEN IF count + Len(n.text) > maxChars
                  THEN [found |-> TRUE, path |-> here, count |-> count]
                  ELSE rest(count + Len(n.text))
             ELSE LET r == CutNode(n.kids, here, count, maxChars)
                  IN  IF r.found THEN r ELSE rest(r.count)

IsAncestor(id, path) == Len(id) < Len(path) /\ SubSeq(path, 1, Len(id)) = id

C14_EmptyBodyShortCircuits ==
    (trace.path # "none" /\ Falsy(fullBody)) =>
        /\ trace = Blank
        /\ Result(trace) =
               [newContent |-> <<>>, historyContent |-> <<>>, hasHistory |-> FALSE]

\* parseEmailContent has returned for a null body.
C14_Witness == trace.path = "empty" /\ fullBody = NULL

\* C15: with visibleCharLimit = 0 no body is cut structurally: the result is
\* the natural split at a detected boundary, or the whole sanitized body
\* (linkified, with no "..." added) as newContent, no history and
\* hasHistory false.
C15_UnlimitedNeverCuts ==
    (Parsed /\ visibleCharLimit = 0) =>
        /\ trace.path \in {"natural", "passthrough"}
        /\ trace.htmlSplitIndex > 0 => trace.path = "natural"
        /\ trace.path = "natural" => trace.htmlSplitIndex > 0 /\ trace.hasHistory
        /\ trace.path = "passthrough" =>
               /\ trace.newContent = Linkify(trace.cleaned)
               /\ trace.historyContent = <<>>
               /\ ~trace.hasHistory

\* An unlimited budget, and a body with more text than any budget of the
\* model, returned whole.
C15_Witness ==
    /\ visibleCharLimit = 0
    /\ trace.path = "passthrough"
    /\ Len(TextContent(trace.body)) > MaxLimit

\* The plain text of an item's body, '' for no body.
BodyText(body) == IF Falsy(body) THEN <<>> ELSE PlainText(body)

\* C16: for every processed item previewText is the plain text of the body
\* with runs of white space made single spaces, trimmed and cut to 400
\* characters, and the placeholder whenever that is empty (an empty or null
\* body included).
C16_PreviewOrPlaceholder ==
    processed # NotProcessed =>
        LET clean == Trim(CollapseSpaces(BodyText(processed.body)))
        IN  processed.previewText =
                IF clean = <<>> THEN Placeholder
                ELSE SubSeq(clean, 1, Min2(Len(clean), 400))

\* The other one of the two icons.
Flipped(icon) == IF icon = ChevronDown THEN ChevronRight ELSE ChevronDown

\* From this step's allItems to the next: the list has the same length and
\* order, the items with the id changed as Change says, the others not at all.
OnlyTarget(id, Change(_)) ==
    /\ Len(this'.allItems) = Len(this.allItems)
    /\ \A k \in 1..Len(this.allItems) :
           this'.allItems[k] = IF this.allItems[k].id = id
                               THEN Change(this.allItems[k])
                               ELSE this.allItems[k]

TitleFlip(it) == [it EXCEPT !.isExpanded = ~@, !.expandIcon = Flipped(@)]

HistoryFlip(it) == [it EXCEPT !.historyExpanded = ~@]

\* C17: a per-item toggle changes only the flag of the targeted item:
\* handleTitleClick(id) flips isExpanded and expandIcon of the item with
\* that id, handleHistoryToggle(id) flips its historyExpanded; every other
\* field of it (body, historyBody, hasHistory, previewText among them),
\* every other item, and the order and length of allItems stay as they were.
C17_ToggleChangesOnlyTarget ==
    [][\A id \in 1..NumRecords :
          /\ HandleTitleClick(id) => OnlyTarget(id, TitleFlip)
          /\ HandleHistoryToggle(id) => OnlyTarget(id, HistoryFlip)]_vars

\* C18: allItems holds no two records with the same id, in every reachable
\* state (the data service returns each record once per query, and disjoint
\* pages for successive reference dates).
C18_NoDuplicateIds ==
    \A i, j \in 1..Len(this.allItems) :
        i # j => this.allItems[i].id # this.allItems[j].id

\* The records are in the order of the direction by createdDate.
InDirection(items, sortDirection) ==
    \A i, j \in 1..Len(items) :
        i < j => IF sortDirection = "desc"
                 THEN items[i].createdDate >= items[j].createdDate
                 ELSE items[i].createdDate <= items[j].createdDate

\* C19: in every reachable state filteredData is ordered by createdDate
\* according to the current sortDirection, descending for 'desc' and
\* ascending for 'asc'.
C19_ViewInSortDirection == InDirection(FilteredData(this), this.sortDirection)

\* C20: when no fetch is in flight, a page has been handled since the last
\* initialLoad, and the page request issued last has returned, hasMoreItems
\* is true exactly if that request returned a full batch.
C20_MoreIffLatestPageFull ==
    (/\ InFlight("data") = {}
     /\ log.applied > 0
     /\ log.latestPage \in {"full", "short"})
        => (this.hasMoreItems <=> log.latestPage = "full")

\* C21: between two consecutive initialLoad calls the user is notified of
\* new data at most once, also when several checks are in flight when the
\* first positive response arrives.
C21_NotifiedOncePerLoad == log.notified <= 1

\* The load-more requests in flight.
LoadMoreInFlight == {i \in InFlight("data") : calls[i].origin = "handleLoadMore"}

\* This step issues a load-more request.
IssuesLoadMore ==
    /\ Len(calls') = Len(calls) + 1
    /\ Last(calls').origin = "handleLoadMore"

\* This step handles the response or the error of a load-more request.
SettlesLoadMore ==
    \E i \in LoadMoreInFlight : calls' = RemoveAt(calls, i)

\* C22: handleLoadMore issues no request when hasMoreItems is false or
\* isLoadingMore is true, so at most one load-more request is in flight at
\* any time; a request it issues carries the createdDate of the last record
\* of allItems at the call (null, here 0, for an empty list); and
\* isLoadingMore is false once the response or the error has been handled.
C22_OneLoadMoreAtATime ==
    [][/\ IssuesLoadMore =>
            /\ this.hasMoreItems /\ ~this.isLoadingMore
            /\ Last(calls').referenceDate =
                   IF this.allItems = <<>> THEN 0
                   ELSE Last(this.allItems).createdDate
       /\ Cardinality(LoadMoreInFlight') <= 1
       /\ SettlesLoadMore => ~this'.isLoadingMore]_vars

\* This step handles the rejection of the initial load's request.
InitialLoadFails ==
    \E i \in InFlight("data") :
        calls[i].origin = "initialLoad" /\ calls' = RemoveAt(calls, i)

\* C23: when a getTimelineData call fails, the error is recorded in
\* this.error, isLoading and isLoadingMore are false, allItems and
\* hasMoreItems are as they were before, and the caller's then-callback
\* still runs (initialLoad's schedules startPolling): nothing is rethrown.
C23_FailureLeavesItems ==
    [][DataFailure =>
          /\ this'.error = "error"
          /\ ~this'.isLoading /\ ~this'.isLoadingMore
          /\ this'.allItems = this.allItems
          /\ this'.hasMoreItems = this.hasMoreItems
          /\ InitialLoadFails => tasks'.timeouts = tasks.timeouts + 1]_vars

\* A request failed after records had been loaded, with more to come.
C23_Witness ==
    /\ this.error = "error"
    /\ this.allItems # <<>>
    /\ this.hasMoreItems

\* C24: for every record of allItems expandIcon is 'utility:chevrondown'
\* exactly if isExpanded is true, and 'utility:chevronright' otherwise,
\* whatever expandByDefault is.
C24_IconMatchesExpanded ==
    \A k \in 1..Len(this.allItems) :
        this.allItems[k].expandIcon =
            IF this.allItems[k].isExpanded THEN ChevronDown ELSE ChevronRight

\* C25: while the component is disconnected no polling timer is active
\* (so no checkForNewItems request is issued), also when an initial load was
\* in flight at the disconnect and completes afterwards; and at every
\* moment at most one polling timer is active.
C25_NoPollingWhenDisconnected ==
    /\ ~this.connected => tasks.intervals = {}
    /\ Cardinality(tasks.intervals) <= 1

\* Whether a text node, empty or not, stands somewhere in the tree.
RECURSIVE HasTextNode(_)
HasTextNode(ks) ==
    \E i \in 1..Len(ks) : ks[i].kind = "text" \/ HasTextNode(ks[i].kids)

\* The places of the elements of a marked tree that have a text node among
\* their descendants.
RECURSIVE TextBearing(_)
TextBearing(ks) ==
    UNION {IF ks[i].kind = "text" THEN {}
           ELSE (IF HasTextNode(ks[i].kids) THEN {ks[i].attrs[1]} ELSE {})
                \cup TextBearing(ks[i].kids) : i \in 1..Len(ks)}

Places(es) == {e.id : e \in es}

\* C26: on the structural-truncation path a source element with no text node
\* among its descendants is attached to neither head nor tail, and an element
\* is attached to a side exactly when a text node (possibly empty) was
\* appended under its clone on that side: the elements of each side are those
\* with a text node below them there, and the elements attached at all are the
\* source elements with a text node below them.
C26_TextlessElementsDropped ==
    trace.path = "structural" =>
        LET src == Label(trace.body, <<>>)
            r == SplitTree(src, trace.maxChars)
            hd == Places(Elems(r.head, <<>>))
            tl == Places(Elems(r.tail, <<>>))
        IN  /\ Unlabel(r.head) = trace.headRoot
            /\ Unlabel(r.tail) = trace.tailRoot
            /\ hd = TextBearing(r.head)
            /\ tl = TextBearing(r.tail)
            /\ hd \cup tl = TextBearing(src)

\* The structural path was taken on a body that has an element without any
\* text node below it and an element with one, which was attached.
C26_Witness ==
    /\ trace.path = "structural"
    /\ LET src == Label(trace.body, <<>>)
       IN  /\ Places(Elems(src, <<>>)) \ TextBearing(src) # {}
           /\ TextBearing(src) # {}
    /\ ElementCount(trace.headRoot) + ElementCount(trace.tailRoot) >= 1

\* A check issued before the most recent initialLoad is answered or fails.
StaleCheckSettles ==
    \E i \in InFlight("check") :
        /\ calls[i].lastCheckDate # this.lastRefreshDate
        /\ calls' = RemoveAt(calls, i)

\* A check issued with the most recent initialLoad's lastRefreshDate is
\* answered.
CurrentCheckSettles ==
    \E i \in InFlight("check") :
        /\ calls[i].lastCheckDate = this.lastRefreshDate
        /\ calls' = RemoveAt(calls, i)

\* C27: isNewDataAvailable becomes true only on the answer to a check issued
\* after the most recent initialLoad, with that load's lastRefreshDate; the
\* answer to a check issued before a refresh, arriving after it, neither
\* raises the banner nor stops the polling started by that refresh.
C27_OnlyCurrentCheckNotifies ==
    [][/\ (~this.isNewDataAvailable /\ this'.isNewDataAvailable)
              => CurrentCheckSettles
       /\ StaleCheckSettles =>
              /\ this'.isNewDataAvailable = this.isNewDataAvailable
              /\ this'.pollingTimer = this.pollingTimer
              /\ tasks'.intervals = tasks.intervals]_vars

\* The step issues a getTimelineData request.
IssuesData ==
    /\ Len(calls') = Len(calls) + 1
    /\ Last(calls').kind = "data"

\* C28: a getTimelineData request is issued only with recordId set and the
\* configuration load finished (configLoaded true), whichever handler issues
\* it, and it carries the case, the batchSize and the sortDirection the
\* component holds when it is issued.
C28_DataOnlyWhenConfigured ==
    [][IssuesData =>
           /\ this'.recordId # ""
           /\ this'.configLoaded
           /\ Last(calls').caseId = this'.recordId
           /\ Last(calls').limitSize = this'.batchSize
           /\ Last(calls').sortDirection = this'.sortDirection]_vars

=============================================================================
